---------------------------- MODULE Spec2Model ----------------------------
(***************************************************************************)
(* WFStoHostedFS.py: a poll loop that mirrors a WFS feature collection     *)
(* into an ArcGIS hosted feature layer.  Each iteration fetches the source *)
(* count and collection, queries the layer, decides whether to resync and, *)
(* if so, deletes the layer's rows (looked up by alertid) and adds the     *)
(* source features one by one.                                             *)
(***************************************************************************)
EXTENDS Integers, Sequences, FiniteSets, TLC

VARIABLES
    pc,                     \* position of the script
    prev_feature_count,     \* module global, line 37 / 155 / 197
    current_feature_count,  \* line 160
    geojson_features,       \* line 164
    arcgis_features,        \* line 170: the rows the query returned
    dest,                   \* the hosted feature layer: a set of rows
    idx,                    \* position of the running for loop (186 / 191)
    feature,                \* the source feature being pushed (line 191)
    arcgis_feature,         \* the record built for it (line 105-115)
    cycle,                  \* 0 before the loop, 1 in its first iteration, 2 later
    decision,               \* outcome of the if at line 177 in this iteration
    faults,                 \* kinds of fault met in this iteration
    prevAtStart,            \* prev_feature_count when this iteration began
    destAtStart,            \* the layer when this iteration began
    addTried,               \* loop positions whose edit_features(adds=) was called
    delTried,               \* loop positions for which delete_row was called
    delIssued               \* loop positions whose edit_features(deletes=) was called

vars == <<pc, prev_feature_count, current_feature_count, geojson_features,
          arcgis_features, dest, idx, feature, arcgis_feature, cycle, decision,
          faults, prevAtStart, destAtStart, addTried, delTried, delIssued>>

----------------------------------------------------------------------------
(* Bounds of the model *)

MaxCount == 2       \* the count request answers 0..MaxCount
MaxLen == 2         \* a fetched collection holds at most MaxLen features
MaxRows == 3        \* the layer holds at most MaxRows rows (a full layer rejects an add)

----------------------------------------------------------------------------
(* Values *)

\* Python's None, as an attribute value (a string no attribute holds)
None == "<None>"

\* prev_feature_count = None (line 37): no count is negative
NoCount == -1

\* str(v), as the f-string of line 134 formats its argument
Str(v) == IF v = None THEN "None" ELSE v

\* d.get(k) / d.get(k, None)
Get(d, k) == IF k \in DOMAIN d THEN d[k] ELSE None

\* The 14 attribute names of a source feature (keys of attribute_mapping)
Attrs == {"alertId", "category", "certainty", "description", "event",
          "headline", "id", "identifier", "instruction", "scope", "severity",
          "status", "urgency", "uuid"}

\* attribute name -> column name
attribute_mapping ==
    [a \in Attrs |-> CASE a = "alertId"     -> "alertid"
                       [] a = "category"    -> "category"
                       [] a = "certainty"   -> "certainty"
                       [] a = "description" -> "description"
                       [] a = "event"       -> "event"
                       [] a = "headline"    -> "headline"
                       [] a = "id"          -> "id"
                       [] a = "identifier"  -> "identifier"
                       [] a = "instruction" -> "instruction"
                       [] a = "scope"       -> "scope"
                       [] a = "severity"    -> "severity"
                       [] a = "status"      -> "status"
                       [] a = "urgency"     -> "urgency"
                       [] a = "uuid"        -> "uuid"]

NoGeometry == [k \in {} |-> None]
Ring == [coordinates |-> "ring"]

\* The source features the WFS may return.  A feature is a JSON object:
\* geometry (null, or an object with coordinates) and properties.
Catalogue ==
    <<[geometry |-> Ring, properties |-> [identifier |-> "A", alertId |-> "1"]],
      [geometry |-> Ring, properties |-> [identifier |-> "B", alertId |-> "2"]],
      [geometry |-> Ring, properties |-> [identifier |-> "C"]],
      [geometry |-> NoGeometry, properties |-> [alertId |-> "1"]]>>

\* Strictly increasing index sequences of length <= n over 1..m
RECURSIVE Picks(_, _, _)
Picks(lo, m, n) ==
    IF n = 0 \/ lo > m THEN {<<>>}
    ELSE {<<>>} \cup UNION {{<<k>> \o p : p \in Picks(k + 1, m, n - 1)} : k \in lo..m}

\* What fetch_wfs_data(...).get('features', []) may hold
Collections ==
    {[k \in 1..Len(p) |-> Catalogue[p[k]]] : p \in Picks(1, Len(Catalogue), MaxLen)}

NoFeature == [geometry |-> NoGeometry, properties |-> [k \in {} |-> None]]
NoRecord == [attributes |-> [k \in {} |-> None],
             geometry |-> [rings |-> None, spatialReference |-> [wkid |-> 0]]]

----------------------------------------------------------------------------
(* Feature mapper *)

\* line 55: feature['geometry']['coordinates'] raises on a null geometry
construct_raises(f) == "coordinates" \notin DOMAIN f.geometry

construct_geojson(f) ==
    [type |-> "Feature",
     geometry |-> [type |-> "Polygon", coordinates |-> f.geometry["coordinates"]],
     properties |-> [a \in Attrs |-> Get(f.properties, a)]]

\* A buggy mapping: only the properties that hold a value get a column
arcgis_attributes_present(g) ==
    LET has == {a \in Attrs : Get(g.properties, a) # None}
    IN  [c \in {attribute_mapping[a] : a \in has} |->
            g.properties[CHOOSE a \in has : attribute_mapping[a] = c]]

\* lines 105-115: one column per entry of attribute_mapping
arcgis_attributes(g) ==
    [c \in {attribute_mapping[a] : a \in DOMAIN attribute_mapping} |->
        Get(g.properties, CHOOSE a \in DOMAIN attribute_mapping : attribute_mapping[a] = c)]

build_arcgis_feature(g) ==
    [attributes |-> arcgis_attributes(g),
     geometry |-> [rings |-> g.geometry.coordinates,
                   spatialReference |-> [wkid |-> 4326]]]

----------------------------------------------------------------------------
(* The hosted feature layer *)

\* the layer gives a new row an object id no row holds
NewOid(rows) == CHOOSE o \in 1..(Cardinality(rows) + 1) :
                    \A r \in rows : r.objectid # o

StoreAdd(rows, rec) ==
    rows \cup {[objectid |-> NewOid(rows), attributes |-> rec.attributes]}

\* feature_layer.query().features, in object id order
RECURSIVE QueryAll(_)
QueryAll(rows) ==
    IF rows = {} THEN <<>>
    ELSE LET r == CHOOSE x \in rows : \A y \in rows : x.objectid <= y.objectid
         IN  <<r>> \o QueryAll(rows \ {r})

\* line 134-137: where "alertid = '<alertId>'"; a null column equals no literal
where_alertid(row, alertId) ==
    /\ row.attributes["alertid"] # None
    /\ row.attributes["alertid"] = Str(alertId)

features_to_delete(rows, alertId) == {r \in rows : where_alertid(r, alertId)}

RECURSIVE AddAll(_, _)
AddAll(rows, coll) ==
    IF coll = <<>> THEN rows
    ELSE AddAll(StoreAdd(rows, build_arcgis_feature(construct_geojson(Head(coll)))),
                Tail(coll))

\* The layer's content when the script starts: whatever rows it was left with
InitialLayers ==
    {AddAll({}, c) : c \in {c \in Collections :
                                \A k \in 1..Len(c) : ~construct_raises(c[k])}}

----------------------------------------------------------------------------
(* The script *)

\* line 167
geojson_identifiers ==
    {Get(geojson_features[k].properties, "identifier") : k \in 1..Len(geojson_features)}

\* line 174
arcgis_identifiers ==
    {arcgis_features[k].attributes["identifier"] : k \in 1..Len(arcgis_features)}

\* The values an iteration starts from.  The loop's locals are each assigned
\* before they are read in an iteration, so what the iteration before left in
\* them is never observed; the bookkeeping of the iteration starts empty.
CycleLocals ==
    /\ current_feature_count' = NoCount
    /\ geojson_features' = <<>>
    /\ arcgis_features' = <<>>
    /\ idx' = 0
    /\ feature' = NoFeature
    /\ arcgis_feature' = NoRecord
    /\ decision' = "pending"
    /\ faults' = {}
    /\ addTried' = {}
    /\ delTried' = {}
    /\ delIssued' = {}

Init ==
    /\ pc = "start"
    /\ prev_feature_count = NoCount
    /\ current_feature_count = NoCount
    /\ geojson_features = <<>>
    /\ arcgis_features = <<>>
    /\ dest \in InitialLayers
    /\ idx = 0
    /\ feature = NoFeature
    /\ arcgis_feature = NoRecord
    /\ cycle = 0
    /\ decision = "pending"
    /\ faults = {}
    /\ prevAtStart = NoCount
    /\ destAtStart = dest
    /\ addTried = {}
    /\ delTried = {}
    /\ delIssued = {}

\* line 155: the count is fetched once before the loop, outside any try
Startup ==
    /\ pc = "start"
    /\ \/ \E n \in 0..MaxCount :
            /\ prev_feature_count' = n
            /\ prevAtStart' = n
            /\ pc' = "fetch_count"
            /\ cycle' = 1
       \/ /\ pc' = "terminated"
          /\ UNCHANGED <<prev_feature_count, prevAtStart, cycle>>
    /\ UNCHANGED <<current_feature_count, geojson_features, arcgis_features, dest,
                   idx, feature, arcgis_feature, decision, faults, destAtStart,
                   addTried, delTried, delIssued>>

\* A buggy handler: the remembered count is forgotten when an iteration fails
ExceptHandlerForgets ==
    /\ pc' = "sleep"
    /\ prev_feature_count' = NoCount

\* A buggy handler: a failed iteration is tried again at once
ExceptHandlerRetries ==
    /\ pc' = "fetch_count"
    /\ UNCHANGED prev_feature_count

\* lines 201-205: the exception is printed and the loop goes to its sleep
ExceptHandler ==
    /\ pc' = "sleep"
    /\ UNCHANGED prev_feature_count

\* line 160
FetchCount ==
    /\ pc = "fetch_count"
    /\ \/ \E n \in 0..MaxCount :
            /\ current_feature_count' = n
            /\ pc' = "fetch_data"
            /\ UNCHANGED <<prev_feature_count, faults>>
       \/ /\ faults' = faults \cup {"count"}
          /\ ExceptHandler
          /\ UNCHANGED current_feature_count
    /\ UNCHANGED <<geojson_features, arcgis_features, dest, idx, feature,
                   arcgis_feature, cycle, decision, prevAtStart, destAtStart,
                   addTried, delTried, delIssued>>

\* lines 163-164
FetchData ==
    /\ pc = "fetch_data"
    /\ \/ \E c \in Collections :
            /\ geojson_features' = c
            /\ pc' = "query"
            /\ UNCHANGED <<prev_feature_count, faults>>
       \/ /\ faults' = faults \cup {"data"}
          /\ ExceptHandler
          /\ UNCHANGED geojson_features
    /\ UNCHANGED <<current_feature_count, arcgis_features, dest, idx, feature,
                   arcgis_feature, cycle, decision, prevAtStart, destAtStart,
                   addTried, delTried, delIssued>>

\* A buggy test: the identifier sets are not compared
resync_required_count_only(prev, cur, aids, gids) ==
    \/ prev = NoCount
    \/ cur # prev

\* A buggy test: every iteration resyncs
resync_required_always(prev, cur, aids, gids) == TRUE

\* lines 177-181
resync_required(prev, cur, aids, gids) ==
    \/ prev = NoCount
    \/ cur # prev
    \/ aids # gids

\* lines 190-197, entered after the delete loop: the add loop, or with no
\* source feature straight to the count update
EnterAddLoop ==
    IF geojson_features # <<>>
    THEN /\ pc' = "add"
         /\ idx' = 1
         /\ UNCHANGED prev_feature_count
    ELSE /\ pc' = "sleep"
         /\ idx' = 0
         /\ prev_feature_count' = current_feature_count

\* A buggy resync: the delete loop is left out
EnterDeleteLoopSkipped == EnterAddLoop

\* lines 184-188, entered when the test asks for a resync: the delete loop
\* over the rows the query returned, when it returned any
EnterDeleteLoop ==
    IF dest # {}
    THEN /\ pc' = "delete"
         /\ idx' = 1
         /\ UNCHANGED prev_feature_count
    ELSE EnterAddLoop

\* A buggy query: its exception is swallowed, the layer is taken to be empty
\* and the iteration goes on to repopulate it
QueryFaultSwallowed ==
    /\ faults' = faults \cup {"query"}
    /\ arcgis_features' = <<>>
    /\ decision' = "resync"
    /\ EnterAddLoop

\* line 170 raises: the exception leaves the try block
QueryFault ==
    /\ faults' = faults \cup {"query"}
    /\ ExceptHandler
    /\ UNCHANGED <<arcgis_features, decision, idx>>

\* lines 170-188: the layer query, the test, and the entry of the first loop
QueryLayer ==
    /\ pc = "query"
    /\ \/ /\ arcgis_features' = QueryAll(dest)
          /\ UNCHANGED faults
          /\ IF resync_required(prev_feature_count, current_feature_count,
                                {r.attributes["identifier"] : r \in dest},
                                geojson_identifiers)
             THEN /\ decision' = "resync"
                  /\ EnterDeleteLoop
             ELSE /\ decision' = "no_change"
                  /\ pc' = "sleep"
                  /\ UNCHANGED <<idx, prev_feature_count>>
       \/ QueryFault
    /\ UNCHANGED <<current_feature_count, geojson_features, dest, feature,
                   arcgis_feature, cycle, prevAtStart, destAtStart,
                   addTried, delTried, delIssued>>

\* lines 186-187 with delete_row (133-148): one turn of the delete loop
DeleteRow ==
    /\ pc = "delete"
    /\ LET alertId == arcgis_features[idx].attributes["alertid"]
           found == features_to_delete(dest, alertId)
           next == IF idx < Len(arcgis_features)
                   THEN /\ pc' = "delete"
                        /\ idx' = idx + 1
                        /\ UNCHANGED prev_feature_count
                   ELSE EnterAddLoop
       IN  /\ delTried' = delTried \cup {idx}
           /\ \/ \* line 137: the lookup raises
                 /\ faults' = faults \cup {"lookup"}
                 /\ ExceptHandler
                 /\ UNCHANGED <<dest, idx, delIssued>>
              \/ \* lines 139-141: nothing found
                 /\ found = {}
                 /\ next
                 /\ UNCHANGED <<dest, faults, delIssued>>
              \/ \* line 145: the delete raises
                 /\ found # {}
                 /\ delIssued' = delIssued \cup {idx}
                 /\ faults' = faults \cup {"delete"}
                 /\ ExceptHandler
                 /\ UNCHANGED <<dest, idx>>
              \/ \* lines 147-148: the layer rejects the delete
                 /\ found # {}
                 /\ delIssued' = delIssued \cup {idx}
                 /\ faults' = faults \cup {"delete_rejected"}
                 /\ next
                 /\ UNCHANGED dest
              \/ \* the rows are deleted
                 /\ found # {}
                 /\ delIssued' = delIssued \cup {idx}
                 /\ dest' = dest \ found
                 /\ next
                 /\ UNCHANGED faults
    /\ UNCHANGED <<current_feature_count, geojson_features, arcgis_features,
                   feature, arcgis_feature, cycle, decision, prevAtStart,
                   destAtStart, addTried>>

\* A buggy push: the add is not wrapped in a try
add_propagates_raise(o) == o = "raise"

\* lines 117-124: the try catches every exception of the add, and a rejected
\* add is only printed
add_propagates(o) == FALSE

\* the fault an add outcome leaves in the iteration
add_fault(o) == CASE o = "raise" -> {"add"}
                  [] o = "rejected" -> {"add_rejected"}
                  [] OTHER -> {}

\* lines 191-193 with construct_geojson and push_to_arcgis: one turn of the
\* add loop
AddFeature ==
    /\ pc = "add"
    /\ LET f == geojson_features[idx]
           next == IF idx < Len(geojson_features)
                   THEN /\ pc' = "add"
                        /\ idx' = idx + 1
                        /\ UNCHANGED prev_feature_count
                   ELSE /\ pc' = "sleep"
                        /\ idx' = idx
                        /\ prev_feature_count' = current_feature_count
       IN  /\ feature' = f
           /\ \/ \* line 55 raises
                 /\ construct_raises(f)
                 /\ faults' = faults \cup {"map"}
                 /\ ExceptHandler
                 /\ UNCHANGED <<arcgis_feature, dest, idx, addTried>>
              \/ /\ ~construct_raises(f)
                 /\ arcgis_feature' = build_arcgis_feature(construct_geojson(f))
                 /\ addTried' = addTried \cup {idx}
                 /\ \E o \in {"ok", "rejected", "raise"} :
                      /\ o = "ok" => Cardinality(dest) < MaxRows
                      /\ dest' = IF o = "ok" THEN StoreAdd(dest, arcgis_feature')
                                 ELSE dest
                      /\ IF add_propagates(o)
                         THEN /\ faults' = faults \cup add_fault(o)
                              /\ ExceptHandler
                              /\ UNCHANGED idx
                         ELSE \/ \* line 127: the query after the add answers
                                 /\ faults' = faults \cup add_fault(o)
                                 /\ next
                              \/ \* line 127 raises
                                 /\ faults' = faults \cup add_fault(o) \cup {"debug_query"}
                                 /\ ExceptHandler
                                 /\ UNCHANGED idx
    /\ UNCHANGED <<current_feature_count, geojson_features, arcgis_features,
                   cycle, decision, prevAtStart, destAtStart, delTried, delIssued>>

\* line 205, and the start of the next iteration
Sleep ==
    /\ pc = "sleep"
    /\ pc' = "fetch_count"
    /\ cycle' = 2
    /\ prevAtStart' = prev_feature_count
    /\ destAtStart' = dest
    /\ CycleLocals
    /\ UNCHANGED <<prev_feature_count, dest>>

Next ==
    \/ Startup
    \/ FetchCount
    \/ FetchData
    \/ QueryLayer
    \/ DeleteRow
    \/ AddFeature
    \/ Sleep

Spec == Init /\ [][Next]_vars

----------------------------------------------------------------------------
(* The script on an empty layer, with a source whose collections have unique
   identifiers and with no call failing *)

UniqueIdentifiers(coll) ==
    \A j, k \in 1..Len(coll) :
        j # k => Get(coll[j].properties, "identifier") # Get(coll[k].properties, "identifier")

CleanInit == Init /\ dest = {}

\* the step met no fault and fetched no collection with a repeated identifier
CleanStep ==
    /\ pc' # "terminated"
    /\ faults' = {}
    /\ UniqueIdentifiers(geojson_features')

CleanNext ==
    \/ Startup /\ CleanStep
    \/ FetchCount /\ CleanStep
    \/ FetchData /\ CleanStep
    \/ QueryLayer /\ CleanStep
    \/ DeleteRow /\ CleanStep
    \/ AddFeature /\ CleanStep
    \/ Sleep /\ CleanStep

CleanSpec == CleanInit /\ [][CleanNext]_vars

----------------------------------------------------------------------------
(* The script with a source that answers every request the same way and with
   no call failing.  The script has one thread and every call returns, so a
   step that can be taken is taken. *)

\* the collection every data request returns
StableFeatures == <<Catalogue[1]>>

\* the step met no fault, the count request answered what the request before
\* it answered, and the data request answered StableFeatures
StableStep ==
    /\ pc' # "terminated"
    /\ faults' = {}
    /\ pc = "fetch_count" => current_feature_count' = prev_feature_count
    /\ pc = "fetch_data" => geojson_features' = StableFeatures

StableNext ==
    \/ Startup /\ StableStep
    \/ FetchCount /\ StableStep
    \/ FetchData /\ StableStep
    \/ QueryLayer /\ StableStep
    \/ DeleteRow /\ StableStep
    \/ AddFeature /\ StableStep
    \/ Sleep /\ StableStep

StableSpec == Init /\ [][StableNext]_vars /\ WF_vars(StableNext)

----------------------------------------------------------------------------
(* The feature mapper alone, over every subset of the 14 attributes *)

\* Source features: any subset of the attributes present, at most one of the
\* present ones holding null, each other one a value of its own
MapInit ==
    /\ pc = "map"
    /\ \E g \in {Ring, NoGeometry}, S \in SUBSET Attrs, n \in Attrs \cup {None} :
          feature = [geometry |-> g,
                     properties |-> [a \in S |-> IF a = n THEN None ELSE a]]
    /\ prev_feature_count = NoCount
    /\ current_feature_count = NoCount
    /\ geojson_features = <<>>
    /\ arcgis_features = <<>>
    /\ dest = {}
    /\ idx = 0
    /\ arcgis_feature = NoRecord
    /\ cycle = 0
    /\ decision = "pending"
    /\ faults = {}
    /\ prevAtStart = NoCount
    /\ destAtStart = {}
    /\ addTried = {}
    /\ delTried = {}
    /\ delIssued = {}

\* lines 192-193 up to the record handed to edit_features (lines 54-115)
MapFeature ==
    /\ pc = "map"
    /\ IF construct_raises(feature)
       THEN /\ pc' = "map_raised"
            /\ UNCHANGED arcgis_feature
       ELSE /\ pc' = "mapped"
            /\ arcgis_feature' = build_arcgis_feature(construct_geojson(feature))
    /\ UNCHANGED <<prev_feature_count, current_feature_count, geojson_features,
                   arcgis_features, dest, idx, feature, cycle, decision, faults,
                   prevAtStart, destAtStart, addTried, delTried, delIssued>>

MapNext == MapFeature

MapSpec == MapInit /\ [][MapNext]_vars

----------------------------------------------------------------------------
(* Properties *)

DestIdentifiers == {r.attributes["identifier"] : r \in dest}

CycleEnded == pc = "sleep"
FaultFree == faults = {}

\* C1: after an iteration in which nothing failed, over a source collection
\* with unique identifiers, the layer's identifier set equals the identifier
\* set of the collection fetched in that iteration.
Convergence ==
    (CycleEnded /\ FaultFree /\ UniqueIdentifiers(geojson_features))
        => DestIdentifiers = geojson_identifiers

\* C2: the first iteration after the start always resyncs, also when the
\* count and the identifier sets already agree.
ColdStartResyncs ==
    (cycle = 1 /\ decision # "pending") => decision = "resync"

\* C3: an iteration whose fetched count equals the remembered count but whose
\* source identifiers differ from the layer's resyncs: delete_row is called for
\* every row the query returned and an add is issued for every source feature
\* (when nothing fails on the way).
BlindSpotResyncs ==
    (/\ decision # "pending"
     /\ current_feature_count = prevAtStart
     /\ geojson_identifiers # arcgis_identifiers)
        => /\ decision = "resync"
           /\ (CycleEnded /\ FaultFree)
                => /\ delTried = 1..Len(arcgis_features)
                   /\ addTried = 1..Len(geojson_features)

BlindSpotWitness ==
    /\ CycleEnded /\ FaultFree
    /\ decision = "resync"
    /\ current_feature_count = prevAtStart
    /\ Len(geojson_features) = Len(arcgis_features)
    /\ geojson_identifiers # arcgis_identifiers
    /\ delTried # {}
    /\ addTried # {}

\* C4: with a remembered count, an equal fetched count and equal identifier
\* sets, the iteration issues no add and no delete and leaves the layer as it
\* was.
NoOpCycle ==
    (/\ decision # "pending"
     /\ prevAtStart # NoCount
     /\ current_feature_count = prevAtStart
     /\ geojson_identifiers = arcgis_identifiers)
        => /\ decision = "no_change"
           /\ CycleEnded
           /\ addTried = {} /\ delTried = {} /\ delIssued = {}
           /\ dest = destAtStart
           /\ prev_feature_count = prevAtStart

NoOpWitness ==
    /\ decision = "no_change"
    /\ CycleEnded
    /\ dest # {}
    /\ current_feature_count = prevAtStart
    /\ geojson_identifiers = arcgis_identifiers

\* C5: a fault-free iteration in which the count goes from non-zero to 0 and
\* the fetched collection is empty ends with an empty layer and without an
\* add call.
DegenerateDrain ==
    (/\ CycleEnded /\ FaultFree
     /\ decision # "pending"
     /\ prevAtStart > 0
     /\ current_feature_count = 0
     /\ geojson_features = <<>>)
        => /\ dest = {}
           /\ addTried = {}

AddFaults == {"add", "add_rejected"}

\* C6: a resync in which an add failed (rejected, or raising in the add call)
\* and no other call raised still issues an add for every source feature and
\* runs to its end, the count update of line 197.
AddFailureContinues ==
    (/\ CycleEnded
     /\ decision = "resync"
     /\ faults \cap AddFaults # {}
     /\ faults \subseteq AddFaults \cup {"delete_rejected"})
        => /\ addTried = 1..Len(geojson_features)
           /\ prev_feature_count = current_feature_count

\* the first of two adds raised, the second was issued and is in the layer
AddFailureWitness ==
    /\ CycleEnded
    /\ decision = "resync"
    /\ faults = {"add"}
    /\ Len(geojson_features) = 2
    /\ addTried = {1, 2}
    /\ destAtStart = {}
    /\ DestIdentifiers = {Get(geojson_features[2].properties, "identifier")}

DeleteFaults == {"lookup", "delete", "delete_rejected"}

\* C7: a resync whose only failures are failed deletes (the lookup or the
\* delete call raising, or the delete rejected) still calls delete_row for
\* every row the query returned and still runs the add loop.
DeleteFailureContinues ==
    (/\ CycleEnded
     /\ decision = "resync"
     /\ faults # {}
     /\ faults \subseteq DeleteFaults)
        => /\ delTried = 1..Len(arcgis_features)
           /\ addTried = 1..Len(geojson_features)

ReadFaults == {"count", "data", "query"}

\* C8: a fault of the count fetch, the feature fetch or the layer query ends
\* that iteration alone: the script is at its sleep, from which the next
\* iteration starts, the remembered count and the layer are as they were
\* when the iteration began, and no add or delete was issued.  A fault of the
\* layer query that follows an add (line 127) ends the iteration the same
\* way, with the remembered count as it was.
ReadFaultIsolated ==
    /\ (faults \cap ReadFaults # {})
        => /\ CycleEnded
           /\ ENABLED Sleep
           /\ prev_feature_count = prevAtStart
           /\ dest = destAtStart
           /\ decision = "pending"
           /\ addTried = {} /\ delTried = {} /\ delIssued = {}
    /\ ("debug_query" \in faults)
        => /\ CycleEnded
           /\ ENABLED Sleep
           /\ prev_feature_count = prevAtStart

ReadFaultWitness ==
    /\ CycleEnded
    /\ cycle = 2
    /\ faults = {"query"}
    /\ prev_feature_count = prevAtStart
    /\ prev_feature_count > 0
    /\ current_feature_count # prev_feature_count
    /\ dest # {}

\* C9: no fault of a source fetch or of a layer query, add or delete ends the
\* process.
NoFatalError == pc # "terminated"

\* The 14 columns of the layer
Columns == {"alertid", "category", "certainty", "description", "event",
            "headline", "id", "identifier", "instruction", "scope", "severity",
            "status", "urgency", "uuid"}

ColumnOf(a) == IF a = "alertId" THEN "alertid" ELSE a

\* C10: the record built for a source feature has all 14 columns, whatever
\* subset of the attributes the feature carries; a column holds the
\* attribute's value when the attribute is present and null when it is absent.
MapperTotal ==
    pc = "mapped"
        => /\ DOMAIN arcgis_feature.attributes = Columns
           /\ Cardinality(DOMAIN arcgis_feature.attributes) = 14
           /\ \A a \in Attrs :
                arcgis_feature.attributes[ColumnOf(a)] =
                    IF a \in DOMAIN feature.properties
                    THEN feature.properties[a] ELSE None

MapperWitness ==
    /\ pc = "mapped"
    /\ DOMAIN feature.properties = {"identifier", "event", "alertId"}
    /\ feature.properties["event"] = None
    /\ arcgis_feature.attributes["alertid"] = "alertId"
    /\ arcgis_feature.attributes["identifier"] = "identifier"
    /\ arcgis_feature.attributes["uuid"] = None

\* C11: a turn of the delete loop that meets no fault deletes exactly the
\* rows of the layer whose identifier column equals the identifier of the
\* queried row it is called for, so every queried row is selected.
DeleteByIdentifier ==
    [][(pc = "delete" /\ faults' = faults)
          => dest \ dest' =
                {r \in dest : r.attributes["identifier"] =
                                 arcgis_features[idx].attributes["identifier"]}]_vars

\* C12: in an iteration that resyncs, the remembered count keeps its old
\* value while the delete and add loops run, and once the iteration has ended
\* it is the count fetched in that iteration, whether the loops ended in
\* success or in failure.
CountSetAfterResync ==
    /\ (decision = "resync" /\ pc \in {"delete", "add"})
          => prev_feature_count = prevAtStart
    /\ (decision = "resync" /\ CycleEnded)
          => prev_feature_count = current_feature_count

\* C13: within an iteration no add is issued before delete_row has been
\* called for every row the iteration's query returned, and once an add has
\* been issued no further delete_row call and no further delete is made.
DeleteThenAdd ==
    /\ [](addTried # {} => delTried = 1..Len(arcgis_features))
    /\ [][addTried # {} => (delTried' \subseteq delTried /\ delIssued' \subseteq delIssued)]_vars

DeleteThenAddWitness ==
    /\ decision = "resync"
    /\ Len(arcgis_features) = 2
    /\ delTried = {1, 2}
    /\ delIssued = {1, 2}
    /\ Len(geojson_features) = 2
    /\ addTried = {1, 2}

RaisedFaults == {"count", "data", "query", "lookup", "delete", "map", "debug_query"}

\* C14: an iteration that has ended (no change, a resync run to its end, or
\* a caught exception) is at the sleep of line 205; the sleep issues no call
\* and changes neither the layer nor the remembered count; and the first call
\* of an iteration, the count fetch, is reached only from that sleep or from
\* the start of the script, so a failed iteration is never tried again
\* without the sleep and no iteration starts inside another.
SleepBetweenCycles ==
    /\ []((faults \cap RaisedFaults # {} \/ decision = "no_change") => CycleEnded)
    /\ [][pc' = "fetch_count" => pc \in {"start", "sleep"}]_vars
    /\ [][pc = "sleep" => (pc' = "fetch_count" /\ UNCHANGED <<dest, prev_feature_count>>)]_vars
    /\ [][(decision = "resync" /\ pc \in {"delete", "add"} /\ pc' \notin {"delete", "add"})
              => pc' = "sleep"]_vars

\* a failed iteration, later than the first, at its sleep
SleepBetweenCyclesWitness ==
    /\ CycleEnded
    /\ cycle = 2
    /\ faults \cap RaisedFaults # {}
    /\ ENABLED Sleep

\* C15: with an empty layer at the start, unique identifiers in every fetched
\* collection and no call failing, the layer at the end of an iteration holds
\* no two rows with the same identifier, and after a resync it holds as many
\* rows as that resync fetched source features.
NoDuplication ==
    CycleEnded
        => /\ \A r1, r2 \in dest :
                r1.attributes["identifier"] = r2.attributes["identifier"] => r1 = r2
           /\ decision = "resync" => Cardinality(dest) = Len(geojson_features)

\* C16: when the source answers every request with the same count and the
\* same collection and no call fails, from some iteration on every iteration
\* is a no-op: no add and no delete is issued any more, and an iteration ends
\* without a resync and with the layer's identifier set equal to the source's.
EventualQuiescence ==
    <>[](/\ addTried = {}
         /\ delTried = {}
         /\ CycleEnded => (decision = "no_change" /\ DestIdentifiers = geojson_identifiers))

\* C17: the count fetch, the feature fetch and the layer query all come
\* before the first add or delete of an iteration: while one of them is still
\* to be made, and in an iteration one of them has ended by its fault, no add
\* and no delete has been issued and the layer is as it was when the iteration
\* began; an iteration that has issued one has made all three reads.
ReadsBeforeMutation ==
    /\ (pc \in {"fetch_count", "fetch_data", "query"} \/ faults \cap ReadFaults # {})
          => /\ addTried = {} /\ delTried = {} /\ delIssued = {}
             /\ dest = destAtStart
    /\ (addTried # {} \/ delTried # {})
          => /\ current_feature_count # NoCount
             /\ decision = "resync"
             /\ arcgis_features = QueryAll(destAtStart)

\* an iteration over a layer with rows and a source with features that the
\* query's fault has ended
ReadsBeforeMutationWitness ==
    /\ CycleEnded
    /\ faults = {"query"}
    /\ geojson_features # <<>>
    /\ dest # {}
    /\ dest = destAtStart
    /\ addTried = {} /\ delTried = {}

=============================================================================
